---- MODULE Spec2Model ----
(***************************************************************************)
(* Model of PyTorch/Detection/SSD/ssd/entrypoints.py: the SSD300 hub       *)
(* entrypoint (checkpoint download, DistributedDataParallel key            *)
(* unwrapping, precision casting) and the Processing utilities (image      *)
(* load / rescale / crop, pick_best, COCO category-name cache).            *)
(*                                                                         *)
(* Python strings are sequences of one-character strings, dicts are        *)
(* sequences of <<key, value>> entries in insertion order.                 *)
(***************************************************************************)
EXTENDS Integers, Sequences, FiniteSets, TLC

VARIABLES
    state_dict,     \* argument of the last unwrap_distributed call (the loaded checkpoint at first)
    ckpt,           \* nvidia_ssd's ckpt: the checkpoint mapping as it stands
    ucalls,         \* number of unwrap_distributed calls made so far
    upc             \* "loaded" | "unwrapping" | "done" (m.load_state_dict reached)

VARIABLES
    torch_home,     \* what torch.hub._get_torch_home() returns in this process
    model_dir_exists, \* os.path.exists(model_dir)
    ckpt_file,      \* the cache file on disk: "absent" | "partial" | "complete"
    dcalls,         \* number of _download_checkpoint calls made so far
    d_last,         \* record of the last _download_checkpoint call
    d_paths         \* the paths _download_checkpoint has returned

VARIABLES
    detections,     \* pick_best's argument: <<bboxes, classes, confidences>>
    threshold,      \* pick_best's threshold
    picked,         \* pick_best's result
    ppc             \* "input" | "picked"

VARIABLES
    children,       \* module tree of the constructed SSD300: children[i] = child modules of i, in order
    is_bn,          \* is_bn[i]: module i is an instance of _BatchNorm
    model_math,     \* kwargs.get("model_math"), "absent" when not passed
    constructed,    \* constructed[i]: parameter dtype of module i as ssd.SSD300() built it
    precision,      \* precision[i]: parameter dtype of module i now
    fpc             \* "constructed" | "returned"

VARIABLES
    remote_names,   \* category names in the remote archive's instances_val2017.json
    category_file,  \* category_names.txt: [exists, text]
    zip_exists,     \* cocoanno.zip is on disk
    annotations_exists, \* the annotations directory is on disk
    ccalls,         \* number of get_coco_object_dictionary calls made so far
    c_last,         \* record of the last call
    c_first         \* [set, names]: what the first successfully completed call returned

VARIABLES
    img_shape,      \* shape of the image prepare_input loaded: <<rows, columns, channels>>
    imgScaled,      \* shape of rescale's result, <<>> while unbound
    assigned,       \* number of rescale branches that assigned imgScaled
    crop_window,    \* crop_center's <<starty, startx>>
    cropped,        \* shape of crop_center's result
    rpc             \* "loaded" | "rescaled" | "cropped"

VARIABLES
    raw_image,      \* what io.imread returned: [shape, pix]
    image,          \* load_image's result: [shape, pix]
    lpc             \* "read" | "loaded"

uVars == <<state_dict, ckpt, ucalls, upc>>
dVars == <<torch_home, model_dir_exists, ckpt_file, dcalls, d_last, d_paths>>
pVars == <<detections, threshold, picked, ppc>>
fVars == <<children, is_bn, model_math, constructed, precision, fpc>>
cVars == <<remote_names, category_file, zip_exists, annotations_exists, ccalls, c_last, c_first>>
rVars == <<img_shape, imgScaled, assigned, crop_window, cropped, rpc>>
lVars == <<raw_image, image, lpc>>

vars == <<uVars, dVars, pVars, fVars, cVars, rVars, lVars>>

\* a part of the program that a specification leaves out stays as constructed here
UIdle == state_dict = <<>> /\ ckpt = <<>> /\ ucalls = 0 /\ upc = "idle"
DIdle ==
    /\ torch_home = "idle" /\ model_dir_exists = FALSE /\ ckpt_file = "absent"
    /\ dcalls = 0 /\ d_last = <<>> /\ d_paths = {}
PIdle == detections = <<>> /\ threshold = 0 /\ picked = <<>> /\ ppc = "idle"
FIdle ==
    /\ children = <<>> /\ is_bn = <<>> /\ model_math = "absent"
    /\ constructed = <<>> /\ precision = <<>> /\ fpc = "idle"
CIdle ==
    /\ remote_names = <<>> /\ category_file = <<>> /\ zip_exists = FALSE
    /\ annotations_exists = FALSE /\ ccalls = 0 /\ c_last = <<>> /\ c_first = <<>>
RIdle ==
    /\ img_shape = <<>> /\ imgScaled = <<>> /\ assigned = 0
    /\ crop_window = <<>> /\ cropped = <<>> /\ rpc = "idle"
LIdle == raw_image = <<>> /\ image = <<>> /\ lpc = "idle"

(***************************************************************************)
(* Bounds                                                                  *)
(***************************************************************************)
MaxKeys == 2          \* entries in a checkpoint mapping
MaxFrags == 4         \* key fragments in all keys of a mapping together
MaxUnwrapCalls == 2   \* successive unwrap_distributed applications

(***************************************************************************)
(* Strings                                                                 *)
(***************************************************************************)
ModuleDot == <<"m", "o", "d", "u", "l", "e", ".">>                    \* 'module.'
ModuleOneDot == <<"m", "o", "d", "u", "l", "e", ".", "1", ".">>      \* 'module.1.'

\* s[i:] of Python, i counted from 0
Drop(s, i) == SubSeq(s, i + 1, Len(s))

StartsWith(s, p) == Len(s) >= Len(p) /\ SubSeq(s, 1, Len(p)) = p

\* str.find(sub) != -1
RECURSIVE Contains(_, _)
Contains(s, sub) ==
    IF Len(s) < Len(sub) THEN FALSE
    ELSE IF StartsWith(s, sub) THEN TRUE
    ELSE Contains(Tail(s), sub)

\* str.replace(old, new, 1): only the leftmost occurrence
RECURSIVE ReplaceFirst(_, _, _)
ReplaceFirst(s, old, new) ==
    IF Len(s) < Len(old) THEN s
    ELSE IF StartsWith(s, old) THEN new \o Drop(s, Len(old))
    ELSE <<Head(s)>> \o ReplaceFirst(Tail(s), old, new)

\* str.replace(old, new): every non-overlapping occurrence, scanning left to right
RECURSIVE Replace(_, _, _)
Replace(s, old, new) ==
    IF Len(s) < Len(old) THEN s
    ELSE IF StartsWith(s, old) THEN new \o Replace(Drop(s, Len(old)), old, new)
    ELSE <<Head(s)>> \o Replace(Tail(s), old, new)

(***************************************************************************)
(* Dicts                                                                   *)
(***************************************************************************)
DictKeys(d) == {d[i][1] : i \in 1..Len(d)}

\* the mapping a dict denotes (dict equality ignores insertion order)
AsMap(d) == {d[i] : i \in 1..Len(d)}

\* d[k] = v: an existing key keeps its position and takes the new value
DictSet(d, k, v) ==
    IF k \in DictKeys(d)
    THEN [i \in 1..Len(d) |-> IF d[i][1] = k THEN <<k, v>> ELSE d[i]]
    ELSE Append(d, <<k, v>>)

(***************************************************************************)
(* checkpoint_from_distributed / unwrap_distributed                        *)
(***************************************************************************)
checkpoint_from_distributed(sd) ==
    \E i \in 1..Len(sd) : Contains(sd[i][1], ModuleDot)

\* the loop body's two replace calls
NewKey(key) == Replace(Replace(key, ModuleOneDot, <<>>), ModuleDot, <<>>)

RECURSIVE UnwrapLoop(_, _)
UnwrapLoop(sd, new_state_dict) ==
    IF sd = <<>> THEN new_state_dict
    ELSE UnwrapLoop(Tail(sd),
                    DictSet(new_state_dict, NewKey(Head(sd)[1]), Head(sd)[2]))

unwrap_distributed(sd) == UnwrapLoop(sd, <<>>)

(***************************************************************************)
(* Checkpoint mappings the entrypoint may load                             *)
(***************************************************************************)
\* the pieces the keys of a loaded checkpoint are put together from
Fragments ==
    {ModuleDot, ModuleOneDot, <<"1", ".">>, <<"a">>, <<"m">>, <<"o", "d", "u", "l", "e", ".">>}

RECURSIVE Concat(_)
Concat(fs) == IF fs = <<>> THEN <<>> ELSE Head(fs) \o Concat(Tail(fs))

RECURSIVE SumTo(_, _)
SumTo(f, n) == IF n = 0 THEN 0 ELSE f[n] + SumTo(f, n - 1)

\* the mapping of m keys, key i made of lens[i] fragments taken in turn from fr,
\* entry i holding tensor i
MkDict(m, lens, fr) ==
    [i \in 1..m |->
        <<Concat(SubSeq(fr, SumTo(lens, i - 1) + 1, SumTo(lens, i))), i>>]

UInit ==
    \E m \in 0..MaxKeys :
      \E lens \in [1..m -> 1..MaxFrags] :
        /\ SumTo(lens, m) <= MaxFrags
        /\ \E fr \in [1..SumTo(lens, m) -> Fragments] :
             /\ Cardinality(DictKeys(MkDict(m, lens, fr))) = m
             /\ state_dict = MkDict(m, lens, fr)
             /\ ckpt = MkDict(m, lens, fr)
    /\ ucalls = 0
    /\ upc = "loaded"

\* a direct call unwrap_distributed(ckpt)
Unwrap ==
    /\ upc \in {"loaded", "unwrapping"}
    /\ ucalls < MaxUnwrapCalls
    /\ state_dict' = ckpt
    /\ ckpt' = unwrap_distributed(ckpt)
    /\ ucalls' = ucalls + 1
    /\ upc' = "unwrapping"
    /\ UNCHANGED <<dVars, pVars, fVars, cVars, rVars, lVars>>

\* nvidia_ssd, lines 203-205
LoadStateDict ==
    /\ upc = "loaded"
    /\ IF checkpoint_from_distributed(ckpt)
       THEN /\ state_dict' = ckpt
            /\ ckpt' = unwrap_distributed(ckpt)
            /\ ucalls' = ucalls + 1
       ELSE UNCHANGED <<state_dict, ckpt, ucalls>>
    /\ upc' = "done"
    /\ UNCHANGED <<dVars, pVars, fVars, cVars, rVars, lVars>>

UNext == Unwrap \/ LoadStateDict

InitUnwrap == UInit /\ DIdle /\ PIdle /\ FIdle /\ CIdle /\ RIdle /\ LIdle

SpecUnwrap == InitUnwrap /\ [][UNext]_vars

(***************************************************************************)
(* Claims about unwrap_distributed (SpecUnwrap)                            *)
(***************************************************************************)
\* str.removeprefix: a leading p only
RemovePrefix(s, p) == IF StartsWith(s, p) THEN Drop(s, Len(p)) ELSE s

\* the key with its leading 'module.1.' and then its leading 'module.' removed
PrefixStripped(key) == RemovePrefix(RemovePrefix(key, ModuleOneDot), ModuleDot)

PrefixStrippedMap(sd) == {<<PrefixStripped(sd[i][1]), sd[i][2]>> : i \in 1..Len(sd)}

\* C1: unwrap_distributed returns the mapping in which every input key has
\* lost only its leading "module.1." and then its leading "module.", the
\* value kept; text "module." further inside a key stays. (Stated for inputs
\* whose prefix-stripped keys are distinct.)
C1_OnlyLeadingPrefixRemoved ==
    (ucalls >= 1 /\ Cardinality(PrefixStrippedMap(state_dict)) = Len(state_dict)
                 /\ Cardinality({e[1] : e \in PrefixStrippedMap(state_dict)}) = Len(state_dict))
        => AsMap(ckpt) = PrefixStrippedMap(state_dict)

\* C2: whenever unwrap_distributed returns, the result has exactly as many
\* entries as its input: two keys that strip to the same key are an error,
\* never a silent overwrite.
C2_NoSilentOverwrite ==
    ucalls >= 1 => Len(ckpt) = Len(state_dict)

\* C8 as stated: the result of unwrap_distributed has no key containing
\* "module.", so a second application changes nothing, and an input without
\* "module." comes back equal.
C8_ResultHasNoModule ==
    ucalls >= 1 =>
        /\ ~checkpoint_from_distributed(ckpt)
        /\ (ucalls >= 2 => AsMap(ckpt) = AsMap(state_dict))
        /\ (~checkpoint_from_distributed(state_dict) => AsMap(ckpt) = AsMap(state_dict))

\* the key without its leading run of 'module.1.' / 'module.' wrappers
RECURSIVE StripWrappers(_)
StripWrappers(key) ==
    IF StartsWith(key, ModuleOneDot) THEN StripWrappers(Drop(key, Len(ModuleOneDot)))
    ELSE IF StartsWith(key, ModuleDot) THEN StripWrappers(Drop(key, Len(ModuleDot)))
    ELSE key

\* "module." occurs in the key only inside its leading run of wrappers
WrapperOnly(key) == ~Contains(StripWrappers(key), ModuleDot)

\* C8 amended: when "module." occurs in the input keys only inside their
\* leading runs of "module." / "module.1." wrappers, the result has no key
\* containing "module."; and whenever the argument has no key containing
\* "module." (the first result included), unwrap_distributed returns a
\* mapping equal to its argument.
C8_WrapperKeysUnwrapped ==
    ucalls >= 1 =>
        /\ (\A i \in 1..Len(state_dict) : WrapperOnly(state_dict[i][1]))
              => ~checkpoint_from_distributed(ckpt)
        /\ ~checkpoint_from_distributed(state_dict) => AsMap(ckpt) = AsMap(state_dict)

\* C8 witness: a two-key checkpoint with wrapper prefixes was unwrapped
C8_Witness ==
    /\ ucalls = 1
    /\ Len(state_dict) = 2
    /\ \A i \in 1..2 : Contains(state_dict[i][1], ModuleDot) /\ WrapperOnly(state_dict[i][1])
    /\ Len(ckpt) = 2
    /\ ~checkpoint_from_distributed(ckpt)

(***************************************************************************)
(* _download_checkpoint                                                    *)
(***************************************************************************)
MaxDownloadCalls == 4   \* _download_checkpoint calls in one run

\* nvidia_ssd's checkpoint URL, split at "/"
CheckpointUrl == <<"https:", "", "keeper.mpdl.mpg.de", "f", "007d0d863bee44ebbac8", "?dl=1">>

\* os.path.basename: what follows the last "/"
Basename(path) == path[Len(path)]

\* os.path.join(torch.hub._get_torch_home(), 'checkpoints')
ModelDir(home) == <<home, "checkpoints">>

\* os.path.join(model_dir, os.path.basename(checkpoint))
CkptFilePath(home, checkpoint) == ModelDir(home) \o <<Basename(checkpoint)>>

\* the condition of line 57 with `and` in place of `or`
NeedsDownloadAnd(exists, force_reload) == ~exists /\ force_reload

\* line 57: not os.path.exists(ckpt_file) or force_reload
NeedsDownload(exists, force_reload) == ~exists \/ force_reload

\* urllib.request.urlretrieve(checkpoint, ckpt_file): the file afterwards.
\* "ok": the whole body was written; "refused": the request failed before the
\* destination was opened; "interrupted": the destination was opened for
\* writing (truncating it) and the transfer broke off.
Urlretrieve(before, outcome) ==
    CASE outcome = "ok" -> "complete"
      [] outcome = "refused" -> before
      [] outcome = "interrupted" -> "partial"

\* d_last before any call
NoDownloadCall ==
    [called |-> FALSE, force_reload |-> FALSE, before |-> "absent",
     downloaded |-> FALSE, outcome |-> "none", path |-> <<>>]

TorchHomes == {"~/.cache/torch", "/data/torch"}

DInit ==
    /\ torch_home \in TorchHomes
    /\ model_dir_exists \in BOOLEAN
    /\ ckpt_file \in (IF model_dir_exists THEN {"absent", "complete"} ELSE {"absent"})
    /\ dcalls = 0
    /\ d_last = NoDownloadCall
    /\ d_paths = {}

\* one call _download_checkpoint(checkpoint, force_reload), as nvidia_ssd makes it
DownloadCheckpoint ==
    /\ dcalls < MaxDownloadCalls
    /\ \E force_reload \in BOOLEAN, outcome \in {"ok", "refused", "interrupted"} :
         LET exists == ckpt_file # "absent"
             download == NeedsDownload(exists, force_reload)
             raised == download /\ outcome # "ok"
             path == CkptFilePath(torch_home, CheckpointUrl)
         IN  /\ model_dir_exists' = TRUE
             /\ ckpt_file' = IF download THEN Urlretrieve(ckpt_file, outcome) ELSE ckpt_file
             /\ d_last' = [called |-> TRUE,
                           force_reload |-> force_reload,
                           before |-> ckpt_file,
                           downloaded |-> download,
                           outcome |-> IF raised THEN "raised" ELSE "returned",
                           path |-> IF raised THEN <<>> ELSE path]
             /\ d_paths' = IF raised THEN d_paths ELSE d_paths \cup {path}
    /\ dcalls' = dcalls + 1
    /\ UNCHANGED torch_home
    /\ UNCHANGED <<uVars, pVars, fVars, cVars, rVars, lVars>>

DNext == DownloadCheckpoint

InitDownload == DInit /\ UIdle /\ PIdle /\ FIdle /\ CIdle /\ RIdle /\ LIdle

SpecDownload == InitDownload /\ [][DNext]_vars

\* C3: a _download_checkpoint call downloads exactly when the cache file did
\* not exist at the call or force_reload was set; a call that does not
\* download returns the cache path and leaves the cached file as it was; and
\* all calls return the same path, the checkpoints directory joined with the
\* URL's basename.
C3_DownloadIffMissingOrForced ==
    /\ d_last.called =>
          /\ d_last.downloaded = (d_last.before = "absent" \/ d_last.force_reload)
          /\ ~d_last.downloaded =>
                /\ d_last.outcome = "returned"
                /\ ckpt_file = d_last.before
                /\ d_last.path = <<torch_home, "checkpoints", "?dl=1">>
    /\ Cardinality(d_paths) <= 1
    /\ \A p \in d_paths : p = <<torch_home, "checkpoints", "?dl=1">>

\* C3 witness: a call with force_reload unset found the file, downloaded nothing
\* and returned the same path as an earlier call that downloaded
C3_Witness ==
    /\ dcalls >= 2
    /\ d_last.called
    /\ ~d_last.force_reload /\ ~d_last.downloaded /\ d_last.before = "complete"
    /\ d_last.outcome = "returned"
    /\ d_paths = {d_last.path}

\* C9: _download_checkpoint only reuses a completely downloaded checkpoint: a
\* call that returns without downloading returns a complete file, so after a
\* failed or interrupted download the next call downloads again.
C9_OnlyCompleteFileReused ==
    (d_last.called /\ d_last.outcome = "returned") => ckpt_file = "complete"

(***************************************************************************)
(* Processing.pick_best                                                    *)
(***************************************************************************)
MaxDet == 3      \* detections of one image
MaxConf == 3     \* confidences and thresholds are 0..MaxConf (an ordered scale)
MaxClass == 2    \* class labels are 1..MaxClass

\* elementwise comparison with >= in place of >
GreaterEq(confidence, thr) == confidence >= thr

\* line 138: confidences > threshold, for one element
Greater(confidence, thr) == confidence > thr

\* np.argwhere(mask)[:, 0]: the indices of the true elements, ascending
RECURSIVE Argwhere(_, _)
Argwhere(mask, i) ==
    IF i > Len(mask) THEN <<>>
    ELSE (IF mask[i] THEN <<i>> ELSE <<>>) \o Argwhere(mask, i + 1)

\* pred[best]: indexing an array with an index array
Take(pred, best) == [j \in 1..Len(best) |-> pred[best[j]]]

pick_best(dets, thr) ==
    LET confidences == dets[3]
        best == Argwhere([i \in 1..Len(confidences) |-> Greater(confidences[i], thr)], 1)
    IN  [p \in 1..3 |-> Take(dets[p], best)]

\* box i of an image is the i-th decoded box
PInit ==
    /\ \E n \in 0..MaxDet :
         \E cls \in [1..n -> 1..MaxClass], conf \in [1..n -> 0..MaxConf] :
            detections = <<[i \in 1..n |-> i], cls, conf>>
    /\ threshold \in 0..MaxConf
    /\ picked = <<>>
    /\ ppc = "input"

PickBest ==
    /\ ppc = "input"
    /\ picked' = pick_best(detections, threshold)
    /\ ppc' = "picked"
    /\ UNCHANGED <<detections, threshold>>
    /\ UNCHANGED <<uVars, dVars, fVars, cVars, rVars, lVars>>

PNext == PickBest

InitPick == PInit /\ UIdle /\ DIdle /\ FIdle /\ CIdle /\ RIdle /\ LIdle

SpecPick == InitPick /\ [][PNext]_vars

\* the indices pick_best is to keep
Qualifying == {i \in 1..Len(detections[3]) : detections[3][i] > threshold}

\* C4: pick_best returns the three sequences restricted to exactly the
\* indices whose confidence is strictly greater than the threshold, in their
\* original order, each retained box, class and confidence unchanged; with
\* no qualifying confidence the result has zero detections.
C4_PickBestIsFilter ==
    ppc = "picked" =>
        /\ Len(picked) = 3
        /\ \A p \in 1..3 :
              /\ Len(picked[p]) = Cardinality(Qualifying)
              /\ \A i \in Qualifying :
                    picked[p][Cardinality({q \in Qualifying : q <= i})] = detections[p][i]

\* C4 witness: three detections, the first at the threshold and dropped, the
\* last two above it and kept in order
C4_Witness ==
    /\ ppc = "picked"
    /\ Len(detections[3]) = 3
    /\ detections[3][1] = threshold
    /\ detections[3][2] > threshold /\ detections[3][3] > detections[3][2]
    /\ picked[1] = <<2, 3>>
    /\ picked[3] = <<detections[3][2], detections[3][3]>>

\* pick_best on two detections none of which qualifies: three empty sequences
C4_EmptyReached ==
    ppc = "picked" /\ Len(detections[3]) = 2 /\ Qualifying = {} /\ picked = <<<<>>, <<>>, <<>>>>

(***************************************************************************)
(* nvidia_ssd: precision of the constructed model                          *)
(***************************************************************************)
MaxModules == 4   \* modules in the tree of the constructed model

\* the children of module i under the parent map par, in registration order
RECURSIVE ChildrenOf(_, _, _, _)
ChildrenOf(par, n, i, j) ==
    IF j > n THEN <<>>
    ELSE (IF par[j] = i THEN <<j>> ELSE <<>>) \o ChildrenOf(par, n, i, j + 1)

\* Module.half() / Module.float(): Module._apply casts the parameters of the
\* module and of every module below it
RECURSIVE Cast(_, _, _)
RECURSIVE CastAll(_, _, _)
Cast(prec, module, dtype) ==
    CastAll([prec EXCEPT ![module] = dtype], children[module], dtype)
CastAll(prec, modules, dtype) ==
    IF modules = <<>> THEN prec
    ELSE CastAll(Cast(prec, Head(modules), dtype), Tail(modules), dtype)

\* batchnorm_to_float without the walk over module.children()
BatchnormToFloatNoWalk(prec, module) ==
    IF is_bn[module] THEN Cast(prec, module, "fp32") ELSE prec

\* lines 188-194
RECURSIVE batchnorm_to_float(_, _)
RECURSIVE BatchnormChildren(_, _)
batchnorm_to_float(prec, module) ==
    BatchnormChildren(IF is_bn[module] THEN Cast(prec, module, "fp32") ELSE prec,
                      children[module])
BatchnormChildren(prec, modules) ==
    IF modules = <<>> THEN prec
    ELSE BatchnormChildren(batchnorm_to_float(prec, Head(modules)), Tail(modules))

\* line 181
Fp16(math) == math = "fp16"

\* The tree of ssd.SSD300(): module 1 is the SSD300 itself, every other
\* module hangs under an earlier one; a _BatchNorm module holds parameters
\* and buffers only, so it has no child modules. The parameters have the
\* default dtype the model was built under.
FInit ==
    /\ \E n \in 1..MaxModules :
         \E par \in [1..n -> 0..(n - 1)], bn \in [1..n -> BOOLEAN] :
            /\ \A i \in 1..n : par[i] < i /\ (i > 1 => par[i] >= 1)
            /\ ~bn[1]
            /\ \A i \in 1..n : bn[i] => ChildrenOf(par, n, i, 1) = <<>>
            /\ children = [i \in 1..n |-> ChildrenOf(par, n, i, 1)]
            /\ is_bn = bn
            /\ \E dtype \in {"fp32", "fp64"} :
                  /\ constructed = [i \in 1..n |-> dtype]
                  /\ precision = [i \in 1..n |-> dtype]
    /\ model_math \in {"absent", "fp32", "fp16", "amp"}
    /\ fpc = "constructed"

\* nvidia_ssd, lines 181-196
NvidiaSsdPrecision ==
    /\ fpc = "constructed"
    /\ precision' = IF Fp16(model_math)
                    THEN batchnorm_to_float(Cast(precision, 1, "fp16"), 1)
                    ELSE precision
    /\ fpc' = "returned"
    /\ UNCHANGED <<children, is_bn, model_math, constructed>>
    /\ UNCHANGED <<uVars, dVars, pVars, cVars, rVars, lVars>>

FNext == NvidiaSsdPrecision

InitPrecision == FInit /\ UIdle /\ DIdle /\ PIdle /\ CIdle /\ RIdle /\ LIdle

SpecPrecision == InitPrecision /\ [][FNext]_vars

\* C5: with model_math "fp16" the returned model has every batch-norm
\* module, at any depth, in full precision and every other module in half
\* precision; with model_math absent or anything else no module's precision
\* has changed.
C5_BatchNormStaysFloat ==
    fpc = "returned" =>
        IF model_math = "fp16"
        THEN \A i \in DOMAIN precision :
                precision[i] = IF is_bn[i] THEN "fp32" ELSE "fp16"
        ELSE precision = constructed

\* C5 witness: an fp16 model came back with a batch-norm module two levels
\* below the root in full precision, its parent in half precision
C5_Witness ==
    /\ fpc = "returned"
    /\ model_math = "fp16"
    /\ \E i \in DOMAIN precision :
          /\ is_bn[i] /\ precision[i] = "fp32"
          /\ \E j \in DOMAIN precision :
                /\ j # 1 /\ i \in {children[j][k] : k \in 1..Len(children[j])}
                /\ precision[j] = "fp16"

(***************************************************************************)
(* Processing.get_coco_object_dictionary                                   *)
(***************************************************************************)
MaxNames == 2       \* categories in the annotation file
MaxNameLen == 2     \* characters in a category name
MaxCocoCalls == 3   \* get_coco_object_dictionary calls in one run

NameChars == {"a", " ", "\n"}
Whitespace == {" ", "\n"}

CategoryNames == UNION {[1..n -> NameChars] : n \in 0..MaxNameLen}

\* line 159: writelines([c + "\n" for c in class_names])
RECURSIVE WriteLines(_)
WriteLines(names) ==
    IF names = <<>> THEN <<>>
    ELSE Head(names) \o <<"\n">> \o WriteLines(Tail(names))

\* file.readlines(): the text cut after every "\n", a last unterminated line kept
RECURSIVE ReadLinesFrom(_, _)
ReadLinesFrom(text, line) ==
    IF text = <<>> THEN (IF line = <<>> THEN <<>> ELSE <<line>>)
    ELSE IF Head(text) = "\n" THEN <<line \o <<"\n">>>> \o ReadLinesFrom(Tail(text), <<>>)
    ELSE ReadLinesFrom(Tail(text), line \o <<Head(text)>>)

ReadLines(text) == ReadLinesFrom(text, <<>>)

RECURSIVE LStrip(_)
LStrip(s) == IF s # <<>> /\ Head(s) \in Whitespace THEN LStrip(Tail(s)) ELSE s

RECURSIVE RStrip(_)
RStrip(s) ==
    IF s # <<>> /\ s[Len(s)] \in Whitespace THEN RStrip(SubSeq(s, 1, Len(s) - 1)) ELSE s

\* str.strip()
Strip(s) == RStrip(LStrip(s))

\* lines 163-164
ReadCategoryNames(text) ==
    LET lines == ReadLines(text) IN [i \in 1..Len(lines) |-> Strip(lines[i])]

NoCocoCall ==
    [called |-> FALSE, cached |-> FALSE, downloaded |-> FALSE, ok |-> FALSE,
     after_first |-> FALSE, names |-> <<>>]

CInit ==
    /\ \E n \in 0..MaxNames : remote_names \in [1..n -> CategoryNames]
    /\ category_file = [exists |-> FALSE, text |-> <<>>]
    /\ zip_exists = FALSE
    /\ annotations_exists = FALSE
    /\ ccalls = 0
    /\ c_last = NoCocoCall
    /\ c_first = [set |-> FALSE, names |-> <<>>]

\* One call of get_coco_object_dictionary. In the download branch nothing is
\* caught, so the call ends where a step raises: "refused" (urlretrieve failed
\* before cocoanno.zip was opened), "interrupted" (urlretrieve broke off with
\* cocoanno.zip created), "write_failed" (category_names.txt was opened for
\* writing and the write broke off after `kept` characters).
GetCocoObjectDictionary ==
    /\ ccalls < MaxCocoCalls
    /\ ccalls' = ccalls + 1
    /\ IF ~category_file.exists
       THEN \E outcome \in {"ok", "refused", "interrupted", "write_failed"} :
              LET class_names == remote_names
                  text == WriteLines(class_names)
              IN  /\ zip_exists' = CASE outcome = "ok" -> FALSE
                                     [] outcome = "refused" -> zip_exists
                                     [] OTHER -> TRUE
                  /\ annotations_exists' = CASE outcome = "ok" -> FALSE
                                             [] outcome = "write_failed" -> TRUE
                                             [] OTHER -> annotations_exists
                  /\ CASE outcome = "ok" ->
                            category_file' = [exists |-> TRUE, text |-> text]
                       [] outcome = "write_failed" ->
                            \E kept \in 0..Len(text) :
                               /\ kept < Len(text) \/ text = <<>>
                               /\ category_file' = [exists |-> TRUE, text |-> SubSeq(text, 1, kept)]
                       [] OTHER -> UNCHANGED category_file
                  /\ c_last' = [called |-> TRUE, cached |-> FALSE, downloaded |-> TRUE,
                                ok |-> outcome = "ok", after_first |-> c_first.set,
                                names |-> IF outcome = "ok" THEN class_names ELSE <<>>]
                  /\ c_first' = IF outcome = "ok" /\ ~c_first.set
                                THEN [set |-> TRUE, names |-> class_names]
                                ELSE c_first
       ELSE LET class_names == ReadCategoryNames(category_file.text)
            IN  /\ c_last' = [called |-> TRUE, cached |-> TRUE, downloaded |-> FALSE,
                              ok |-> TRUE, after_first |-> c_first.set,
                              names |-> class_names]
                /\ c_first' = IF ~c_first.set
                              THEN [set |-> TRUE, names |-> class_names]
                              ELSE c_first
                /\ UNCHANGED <<category_file, zip_exists, annotations_exists>>
    /\ UNCHANGED remote_names
    /\ UNCHANGED <<uVars, dVars, pVars, fVars, rVars, lVars>>

CNext == GetCocoObjectDictionary

InitCoco == CInit /\ UIdle /\ DIdle /\ PIdle /\ FIdle /\ RIdle /\ LIdle

SpecCoco == InitCoco /\ [][CNext]_vars

\* C6: a call downloads exactly when category_names.txt is absent; once one
\* call has completed successfully, every later call downloads nothing,
\* returns the same ordered names as that first call, and leaves neither
\* cocoanno.zip nor the annotations directory behind.
C6_DownloadOnFirstUseOnly ==
    c_last.called =>
        /\ c_last.downloaded = ~c_last.cached
        /\ (c_last.after_first /\ c_last.ok) =>
              /\ ~c_last.downloaded
              /\ c_last.names = c_first.names
              /\ ~zip_exists
              /\ ~annotations_exists

(***************************************************************************)
(* Processing.rescale / crop_center, as prepare_input calls them           *)
(***************************************************************************)
MaxDim == 12        \* rows and columns of a loaded image

InputHeight == 300  \* prepare_input: rescale(img, 300, 300)
InputWidth == 300
CropX == 300        \* prepare_input: crop_center(img, 300, 300)
CropY == 300

\* int(x) of the double x computed for the exact quotient num / den >= 1.
\* The double product or quotient is the exact value rounded, so it can fall
\* just below an exact integer and int() then gives one less; a value that is
\* no integer is further from the next integer than the rounding error of
\* any image size, and keeps its floor. Both values are allowed wherever the
\* exact value is an integer, which covers every result the doubles can give.
IntOfFloat(num, den) ==
    IF num % den = 0 THEN {num \div den, (num \div den) - 1} ELSE {num \div den}

\* line 88 with the aspect multiplied instead of divided
PortraitResInverted(rows, cols, input_width) == IntOfFloat(input_width * cols, rows)

\* line 84: int(aspect * input_height), aspect = cols / float(rows) > 1
LandscapeRes(rows, cols, input_height) == IntOfFloat(cols * input_height, rows)

\* line 88: int(input_width / aspect), aspect = cols / float(rows) < 1
PortraitRes(rows, cols, input_width) == IntOfFloat(input_width * rows, cols)

\* transform.resize(img, (rows, cols)): the channel axis is kept
Resize(shape, rows, cols) == <<rows, cols, shape[3]>>

\* a[start:stop] on an axis of length n: its length
SliceBound(n, k) == IF k < 0 THEN (IF k + n < 0 THEN 0 ELSE k + n) ELSE (IF k > n THEN n ELSE k)
SliceLen(n, start, stop) ==
    IF SliceBound(n, stop) > SliceBound(n, start)
    THEN SliceBound(n, stop) - SliceBound(n, start) ELSE 0

\* line 98 / 99
CropStart(n, crop) == (n \div 2) - (crop \div 2)

RInit ==
    /\ \E rows \in 1..MaxDim, cols \in 1..MaxDim, channels \in {3, 4} :
          img_shape = <<rows, cols, channels>>
    /\ imgScaled = <<>>
    /\ assigned = 0
    /\ crop_window = <<>>
    /\ cropped = <<>>
    /\ rpc = "loaded"

\* rescale(img, 300, 300): three independent ifs on aspect = cols / float(rows).
\* The division of two integers below 2^53 is 1.0 only for equal integers and
\* is on the same side of 1 as the exact quotient.
Rescale ==
    /\ rpc = "loaded"
    /\ LET rows == img_shape[1]
           cols == img_shape[2]
           landscape == cols > rows
           portrait == cols < rows
           square == cols = rows
       IN  /\ assigned' = (IF landscape THEN 1 ELSE 0) + (IF portrait THEN 1 ELSE 0)
                              + (IF square THEN 1 ELSE 0)
           /\ \E res1 \in LandscapeRes(rows, cols, InputHeight),
                 res2 \in PortraitRes(rows, cols, InputWidth) :
                imgScaled' =
                    IF square THEN Resize(img_shape, InputWidth, InputHeight)
                    ELSE IF portrait THEN Resize(img_shape, res2, InputHeight)
                    ELSE IF landscape THEN Resize(img_shape, InputWidth, res1)
                    ELSE <<>>
           /\ rpc' = IF landscape \/ portrait \/ square THEN "rescaled" ELSE "raised"
    /\ UNCHANGED <<img_shape, crop_window, cropped>>
    /\ UNCHANGED <<uVars, dVars, pVars, fVars, cVars, lVars>>

\* crop_center(img, 300, 300)
CropCenter ==
    /\ rpc = "rescaled"
    /\ LET y == imgScaled[1]
           x == imgScaled[2]
           startx == CropStart(x, CropX)
           starty == CropStart(y, CropY)
       IN  /\ crop_window' = <<starty, startx>>
           /\ cropped' = <<SliceLen(y, starty, starty + CropY),
                           SliceLen(x, startx, startx + CropX),
                           imgScaled[3]>>
    /\ rpc' = "cropped"
    /\ UNCHANGED <<img_shape, imgScaled, assigned>>
    /\ UNCHANGED <<uVars, dVars, pVars, fVars, cVars, lVars>>

RNext == Rescale \/ CropCenter

InitRescale == RInit /\ UIdle /\ DIdle /\ PIdle /\ FIdle /\ CIdle /\ LIdle

SpecRescale == InitRescale /\ [][RNext]_vars

\* C7: for every image with at least one row and one column exactly one of
\* rescale's three branches assigns the result, the rescaled image has at
\* least 300 rows and 300 columns, and crop_center(.., 300, 300) gives exactly
\* 300 rows by 300 columns from a window inside the rescaled image.
C7_RescaleThenCropIs300 ==
    /\ rpc # "raised"
    /\ rpc \in {"rescaled", "cropped"} =>
          /\ assigned = 1
          /\ imgScaled[1] >= 300 /\ imgScaled[2] >= 300
    /\ rpc = "cropped" =>
          /\ cropped[1] = 300 /\ cropped[2] = 300
          /\ crop_window[1] >= 0 /\ crop_window[1] + 300 <= imgScaled[1]
          /\ crop_window[2] >= 0 /\ crop_window[2] + 300 <= imgScaled[2]

\* C7 witness: a portrait image was rescaled to more than 300 rows and
\* cropped from a window that starts below the top row
C7_Witness ==
    /\ rpc = "cropped"
    /\ img_shape[1] > img_shape[2]
    /\ imgScaled[1] > 300 /\ imgScaled[2] = 300
    /\ crop_window[1] > 0
    /\ cropped[1] = 300 /\ cropped[2] = 300

(***************************************************************************)
(* Processing.load_image                                                   *)
(***************************************************************************)
MaxSide == 2     \* rows and columns of an image file

\* uint8 samples an image file may hold
Samples == {0, 255}

\* skimage.img_as_float on a uint8 sample: the rational v / 255, as <<v, 255>>
ImgAsFloat(v) == <<v, 255>>

\* np.array([img, img, img]) of a 2-D img: shape (3, rows, cols)
Stack3(img) ==
    [shape |-> <<3>> \o img.shape,
     pix |-> [k \in 1..3 |-> img.pix]]

\* a.swapaxes(0, 2) of a 3-D array: out[i][j][k] = a[k][j][i]
Swapaxes02(a) ==
    [shape |-> <<a.shape[3], a.shape[2], a.shape[1]>>,
     pix |-> [i \in 1..a.shape[3] |-> [j \in 1..a.shape[2] |->
                [k \in 1..a.shape[1] |-> a.pix[k][j][i]]]]]

\* skimage.img_as_float(io.imread(image_path)): same shape, every sample converted
ImgAsFloatArray(raw) ==
    [shape |-> raw.shape,
     pix |-> [r \in 1..raw.shape[1] |-> [c \in 1..raw.shape[2] |->
                IF Len(raw.shape) = 2 THEN ImgAsFloat(raw.pix[r][c])
                ELSE [k \in 1..raw.shape[3] |-> ImgAsFloat(raw.pix[r][c][k])]]]]

load_image(raw) ==
    LET img == ImgAsFloatArray(raw)
    IN  IF Len(img.shape) = 2 THEN Swapaxes02(Stack3(img)) ELSE img

\* what io.imread gives: a grayscale (2-D) or an RGB (3-D) array
LInit ==
    /\ \E rows \in 1..MaxSide, cols \in 1..MaxSide :
          \/ \E pix \in [1..rows -> [1..cols -> Samples]] :
                raw_image = [shape |-> <<rows, cols>>, pix |-> pix]
          \/ \E pix \in [1..rows -> [1..cols -> [1..3 -> Samples]]] :
                raw_image = [shape |-> <<rows, cols, 3>>, pix |-> pix]
    /\ image = <<>>
    /\ lpc = "read"

LoadImage ==
    /\ lpc = "read"
    /\ image' = load_image(raw_image)
    /\ lpc' = "loaded"
    /\ UNCHANGED raw_image
    /\ UNCHANGED <<uVars, dVars, pVars, fVars, cVars, rVars>>

LNext == LoadImage

InitLoadImage == LInit /\ UIdle /\ DIdle /\ PIdle /\ FIdle /\ CIdle /\ RIdle

SpecLoadImage == InitLoadImage /\ [][LNext]_vars

\* C10: for a grayscale image of H rows and W columns load_image returns an
\* H x W x 3 image with out[r][c][k] equal to the input pixel img[r][c] for
\* every row r, column c and channel k.
C10_GrayKeepsOrientation ==
    (lpc = "loaded" /\ Len(raw_image.shape) = 2) =>
        /\ image.shape = <<raw_image.shape[1], raw_image.shape[2], 3>>
        /\ \A r \in 1..raw_image.shape[1], c \in 1..raw_image.shape[2], k \in 1..3 :
              image.pix[r][c][k] = ImgAsFloat(raw_image.pix[r][c])

====
